---- MODULE Spec2Model ----
(***************************************************************************)
(* Model of streamlit_app.py, the shipping data dashboard.                 *)
(*                                                                         *)
(* The script is one Streamlit page: every user interaction reruns it from *)
(* top to bottom with the current widget values.  A run loads the CSV of   *)
(* the selected company through the st.cache_data cache, filters it, and   *)
(* computes the rankings, the time series, the metrics and the growth      *)
(* trend that the page draws.                                              *)
(*                                                                         *)
(* Representation.                                                         *)
(*   - a data frame is a sequence of rows, a row is a record keyed by the  *)
(*     column names (blanks written as underscores);                       *)
(*   - a numeric cell is <<v>>, a missing one (NaN) is <<>>;               *)
(*   - a timestamp is the number of hours since 2024-01-01 00:00, a date   *)
(*     is the number of days since 2024-01-01;                             *)
(*   - a float that a division produced is [kind, n, d]: the rational n/d  *)
(*     (d > 0), +infinity or NaN.  Import values are non-negative, so      *)
(*     -infinity does not arise.                                           *)
(*   - data frames are objects: the script's names hold references into a  *)
(*     store, so that a write through one name is visible through every    *)
(*     other name of the same object.                                      *)
(***************************************************************************)
EXTENDS Integers, Sequences, FiniteSets, TLC

\* ------------------------------------------------------------------ bounds

\* The multi-select values tried are the empty selection, every prefix of the
\* option list and the single options among the first MaxPick; the select
\* boxes are tried on their first MaxPick options.
MaxPick == 2

\* The unit select box is tried on the first MaxUnits entries of quantity_units.
MaxUnits == 3

\* Number of events (user interactions, edits of a file) followed in one session.
MaxInteractions == 3

\* ------------------------------------------------------- program constants

TopK == 10

DrillK == 5

companies == <<"Sayatva", "Sri Energy", "WOM", "Parveen", "JVS">>

quantity_units == <<"PCS", "NOS", "SET", "PKG", "FTS", "KGS", "INC", "METER", "WDC">>

All == "All"

\* What st.selectbox returns when it has no option.
None == "None"

\* ------------------------------------------------------------ small helpers

RECURSIVE SumSeq(_)
SumSeq(s) == IF s = <<>> THEN 0 ELSE Head(s) + SumSeq(Tail(s))

RECURSIVE ProdSeq(_)
ProdSeq(s) == IF s = <<>> THEN 1 ELSE Head(s) * ProdSeq(Tail(s))

Min2(a, b) == IF a <= b THEN a ELSE b

Range(s) == {s[i] : i \in DOMAIN s}

MapSeq(s, F(_)) == [i \in DOMAIN s |-> F(s[i])]

\* Series.head(n) / DataFrame.head(n)
HeadN(s, n) == SubSeq(s, 1, Min2(n, Len(s)))

\* Series.unique(): the distinct values in order of first appearance.
RECURSIVE UniqueFrom(_, _)
UniqueFrom(s, seen) ==
    IF s = <<>> THEN <<>>
    ELSE IF Head(s) \in seen THEN UniqueFrom(Tail(s), seen)
    ELSE <<Head(s)>> \o UniqueFrom(Tail(s), seen \cup {Head(s)})

Unique(df, col) == UniqueFrom(MapSeq(df, LAMBDA r : r[col]), {})

\* ------------------------------------------------------------------ calendar

\* Days before the first day of each month of 2024, and before 2025.
MonthStart == <<0, 31, 60, 91, 121, 152, 182, 213, 244, 274, 305, 335, 366>>

\* Timestamp.date() / Series.dt.date: the time of day is dropped.
DateOnly(ts) == ts \div 24

\* The calendar month (1..12) a date falls in.
MonthOf(date) == CHOOSE m \in 1..12 : MonthStart[m] <= date /\ date < MonthStart[m + 1]

\* freq='ME': a month's bucket is labelled by its last day.
MonthEnd(m) == MonthStart[m + 1] - 1

\* pd.read_csv(parse_dates=..., dayfirst=True) on "dd/mm/2024 hh:00",
\* held in the file as <<dd, mm, hh>>: the first number is the day.
ParseDayFirst(txt) == (MonthStart[txt[2]] + txt[1] - 1) * 24 + txt[3]

\* --------------------------------------------------------------- CSV files

\* Collation order of the names (groupby sorts its keys).
NameOrder ==
    << "I01", "I02", "I03", "I04", "I05", "I06", "I07", "I08", "I09", "I10", "I11", "I12",
       "India",
       "P01", "P02", "P03", "P04", "P05", "P06", "P07", "P08", "P09", "P10", "P11", "P12",
       "UAE" >>

CsvRow(dt, imp, ic, oc, prod, cif, fob, qty, unit) ==
    [ ARRIVAL_DATE |-> dt, IMPORTER_NAME |-> imp, IMPORTER_COUNTRY |-> ic,
      COUNTRY_OF_ORIGIN |-> oc, PRODUCT_DETAILS |-> prod,
      IMPORT_VALUE_CIF |-> cif, IMPORT_VALUE_FOB |-> fob,
      QUANTITY |-> qty, QUANTITY_UNIT |-> unit ]

\* The spec's examples: two January records, one on 1 February, a product
\* absent in February, absent monetary fields, the legacy unit label.
CsvSayatva ==
    << CsvRow(<<5, 1, 0>>,   "I01", "India", "China",   "P01", <<100>>, <<>>,   <<2>>, "Pieces"),
       CsvRow(<<28, 1, 13>>, "I02", "India", "China",   "P01", <<>>,    <<50>>, <<3>>, "PCS"),
       CsvRow(<<1, 2, 0>>,   "I02", "UAE",   "Germany", "P02", <<20>>,  <<10>>, <<1>>, "NOS"),
       CsvRow(<<10, 3, 13>>, "I01", "India", "China",   "P01", <<225>>, <<>>,   <<4>>, "Pieces"),
       CsvRow(<<10, 3, 0>>,  "I03", "UAE",   "China",   "P02", <<30>>,  <<30>>, <<5>>, "NOS") >>

\* Six importers of one product, six products of one importer, eleven
\* importers and eleven products in all, with ties in the totals.
CsvSriEnergy ==
    << CsvRow(<<3, 4, 0>>, "I01", "India", "China", "P01", <<5>>, <<1>>, <<6>>, "PCS"),
       CsvRow(<<3, 4, 0>>, "I02", "India", "China", "P01", <<2>>, <<>>,  <<1>>, "PCS"),
       CsvRow(<<3, 4, 0>>, "I03", "India", "China", "P01", <<7>>, <<>>,  <<1>>, "PCS"),
       CsvRow(<<3, 4, 0>>, "I04", "India", "China", "P01", <<2>>, <<>>,  <<1>>, "PCS"),
       CsvRow(<<3, 4, 0>>, "I05", "India", "China", "P01", <<1>>, <<>>,  <<1>>, "PCS"),
       CsvRow(<<3, 4, 0>>, "I06", "India", "China", "P01", <<9>>, <<>>,  <<1>>, "PCS"),
       CsvRow(<<3, 4, 0>>, "I01", "India", "China", "P02", <<>>,  <<3>>, <<2>>, "PCS"),
       CsvRow(<<3, 4, 0>>, "I01", "India", "China", "P03", <<8>>, <<>>,  <<9>>, "PCS"),
       CsvRow(<<3, 4, 0>>, "I01", "India", "China", "P04", <<3>>, <<>>,  <<2>>, "Pieces"),
       CsvRow(<<3, 4, 0>>, "I01", "India", "China", "P05", <<1>>, <<>>,  <<4>>, "PCS"),
       CsvRow(<<3, 4, 0>>, "I01", "India", "China", "P06", <<6>>, <<>>,  <<7>>, "PCS"),
       CsvRow(<<9, 5, 0>>, "I07", "India", "China", "P07", <<4>>, <<4>>, <<3>>, "PCS"),
       CsvRow(<<9, 5, 0>>, "I08", "India", "China", "P08", <<>>,  <<>>,  <<5>>, "PCS"),
       CsvRow(<<9, 5, 0>>, "I09", "India", "China", "P09", <<30>>, <<>>, <<8>>, "PCS"),
       CsvRow(<<9, 5, 0>>, "I10", "India", "China", "P10", <<2>>, <<>>,  <<1>>, "PCS"),
       CsvRow(<<9, 5, 0>>, "I11", "India", "China", "P11", <<12>>, <<>>, <<2>>, "PCS") >>

\* Months whose total is zero because both monetary fields are absent.
CsvWOM ==
    << CsvRow(<<5, 1, 0>>,  "I03", "India", "China", "P03", <<>>,   <<>>, <<1>>, "PCS"),
       CsvRow(<<1, 2, 0>>,  "I03", "India", "China", "P03", <<40>>, <<>>, <<1>>, "PCS"),
       CsvRow(<<5, 1, 0>>,  "I04", "India", "China", "P04", <<>>,   <<>>, <<2>>, "NOS"),
       CsvRow(<<1, 2, 0>>,  "I04", "India", "China", "P04", <<>>,   <<>>, <<2>>, "NOS"),
       CsvRow(<<10, 3, 0>>, "I04", "India", "China", "P04", <<10>>, <<>>, <<2>>, "NOS") >>

\* A single shipment.
CsvParveen ==
    << CsvRow(<<29, 2, 13>>, "I05", "UAE", "Germany", "P05", <<7>>, <<7>>, <<1>>, "SET") >>

\* Equal totals, and country selections that no record satisfies together.
CsvJVS ==
    << CsvRow(<<31, 1, 13>>, "I02", "India", "Germany", "P02", <<10>>, <<>>,   <<1>>, "PCS"),
       CsvRow(<<31, 1, 0>>,  "I01", "UAE",   "China",   "P01", <<>>,   <<10>>, <<1>>, "Pieces"),
       CsvRow(<<1, 2, 0>>,   "I01", "UAE",   "China",   "P02", <<5>>,  <<5>>,  <<2>>, "PCS"),
       CsvRow(<<29, 2, 13>>, "I02", "India", "Germany", "P01", <<20>>, <<>>,   <<3>>, "NOS") >>

\* data/<company>.csv as shipped.
CsvFile(company) ==
    CASE company = "Sayatva" -> CsvSayatva
      [] company = "Sri Energy" -> CsvSriEnergy
      [] company = "WOM" -> CsvWOM
      [] company = "Parveen" -> CsvParveen
      [] company = "JVS" -> CsvJVS

\* ------------------------------------------------------------- data frames

\* Series.fillna(v) on one cell.
FillNa(cell, v) == IF cell = <<>> THEN v ELSE cell[1]

\* The order sort_values and nlargest give a cell: NaN sorts last.
CellVal(cell) == IF cell = <<>> THEN -1 ELSE cell[1]

\* Series.sum(): missing cells are skipped, the sum of nothing is 0.
SumCol(df, col) == SumSeq([i \in DOMAIN df |-> FillNa(df[i][col], 0)])

\* df[col] = values, on one row: the column is added or overwritten.
WithCol(r, col, v) == [c \in (DOMAIN r) \cup {col} |-> IF c = col THEN v ELSE r[c]]

\* df[mask] on row values.
RECURSIVE MaskRows(_, _)
MaskRows(df, mask) ==
    IF df = <<>> THEN <<>>
    ELSE (IF Head(mask) THEN <<Head(df)>> ELSE <<>>) \o MaskRows(Tail(df), Tail(mask))

\* A handle is a name of the script bound to a data frame object:
\* [store |-> the objects alive, ref |-> the object the name is bound to].
Frame(h) == h.store[h.ref]

\* df[mask]: boolean indexing builds a new object, also when every row is kept.
BoolIndexAlias(h, mask) ==
    IF \A i \in DOMAIN mask : mask[i]
    THEN h
    ELSE [store |-> Append(h.store, MaskRows(Frame(h), mask)), ref |-> Len(h.store) + 1]

BoolIndex(h, mask) ==
    [store |-> Append(h.store, MaskRows(Frame(h), mask)), ref |-> Len(h.store) + 1]

\* df[col] = values: the object the name is bound to is written in place.
SetColumn(h, col, values) ==
    [h EXCEPT !.store[h.ref] = [i \in DOMAIN @ |-> WithCol(@[i], col, values[i])]]

\* ------------------------------------------------------------ data loader

\* pd.read_csv(..., parse_dates=['ARRIVAL DATE'], dayfirst=True)
ReadCsv(csv) == [i \in DOMAIN csv |-> WithCol(csv[i], "ARRIVAL_DATE", ParseDayFirst(csv[i].ARRIVAL_DATE))]

\* A loader that reads the file on every call.
GetShippingDataUncached(cached, disk, company) ==
    LET df == ReadCsv(disk[company])
    IN  [df |-> df, cache |-> [c \in (DOMAIN cached) \cup {company} |-> IF c = company THEN df ELSE cached[c]],
         read |-> TRUE]

\* @st.cache_data get_shipping_data(company): the first call for a company
\* reads the file and stores the frame; later calls return a copy of the
\* stored frame.
GetShippingData(cached, disk, company) ==
    IF company \in DOMAIN cached
    THEN [df |-> cached[company], cache |-> cached, read |-> FALSE]
    ELSE LET df == ReadCsv(disk[company])
         IN  [df |-> df, cache |-> [c \in (DOMAIN cached) \cup {company} |-> IF c = company THEN df ELSE cached[c]],
              read |-> TRUE]

\* ----------------------------------------------------------- filter engine

MinDate(df) == CHOOSE d \in {DateOnly(df[i].ARRIVAL_DATE) : i \in DOMAIN df} :
                  \A j \in DOMAIN df : d <= DateOnly(df[j].ARRIVAL_DATE)

MaxDate(df) == CHOOSE d \in {DateOnly(df[i].ARRIVAL_DATE) : i \in DOMAIN df} :
                  \A j \in DOMAIN df : d >= DateOnly(df[j].ARRIVAL_DATE)

\* A comparison of the timestamp itself with the dates (midnights).
InDateRangeTimestamp(ts, start, end) == ts >= start * 24 /\ ts <= end * 24

\* (ARRIVAL DATE.dt.date >= start_date) & (ARRIVAL DATE.dt.date <= end_date)
InDateRange(ts, start, end) == DateOnly(ts) >= start /\ DateOnly(ts) <= end

DateFilter(h, start, end) ==
    BoolIndex(h, [i \in DOMAIN Frame(h) |-> InDateRange(Frame(h)[i].ARRIVAL_DATE, start, end)])

\* The importer filter applied whatever the selection.
ImporterFilterAlways(h, selected) ==
    BoolIndex(h, [i \in DOMAIN Frame(h) |-> Frame(h)[i].IMPORTER_NAME \in selected])

\* if selected_importers: filtered_df = filtered_df[IMPORTER NAME.isin(selected_importers)]
ImporterFilter(h, selected) ==
    IF selected # {}
    THEN BoolIndex(h, [i \in DOMAIN Frame(h) |-> Frame(h)[i].IMPORTER_NAME \in selected])
    ELSE h

\* if selected != 'All': filtered_df = filtered_df[filtered_df[col] == selected]
CountryFilter(h, col, selected) ==
    IF selected # All
    THEN BoolIndex(h, [i \in DOMAIN Frame(h) |-> Frame(h)[i][col] = selected])
    ELSE h

\* ------------------------------------------------------ aggregation engine

\* The keys of df.groupby(col), in sorted order.
GroupKeys(df, col) == SelectSeq(NameOrder, LAMBDA k : \E i \in DOMAIN df : df[i][col] = k)

RowsOf(df, col, key) == SelectSeq(df, LAMBDA r : r[col] = key)

\* cif + fob with neither filled: NaN as soon as one of them is missing.
TotalValueNoFill(r) ==
    IF r.IMPORT_VALUE_CIF = <<>> \/ r.IMPORT_VALUE_FOB = <<>>
    THEN <<>>
    ELSE <<r.IMPORT_VALUE_CIF[1] + r.IMPORT_VALUE_FOB[1]>>

\* df['IMPORT VALUE CIF'].fillna(0) + df['IMPORT VALUE FOB'].fillna(0), on one row
TotalValue(r) == <<FillNa(r.IMPORT_VALUE_CIF, 0) + FillNa(r.IMPORT_VALUE_FOB, 0)>>

\* df.groupby(col)[['IMPORT VALUE CIF', 'IMPORT VALUE FOB']].sum(), then
\* the TOTAL VALUE column of the grouped frame.
GroupByValue(df, col) ==
    LET keys == GroupKeys(df, col)
        Sums(k) == [ IMPORT_VALUE_CIF |-> <<SumCol(RowsOf(df, col, k), "IMPORT_VALUE_CIF")>>,
                     IMPORT_VALUE_FOB |-> <<SumCol(RowsOf(df, col, k), "IMPORT_VALUE_FOB")>> ]
    IN  [i \in DOMAIN keys |->
            WithCol(WithCol(Sums(keys[i]), col, keys[i]), "TOTAL_VALUE", TotalValue(Sums(keys[i])))]

\* df.groupby(col)[metric].sum().reset_index()
GroupBySum(df, col, metric) ==
    LET keys == GroupKeys(df, col)
    IN  [i \in DOMAIN keys |->
            WithCol(WithCol(<<>>, col, keys[i]), metric, <<SumCol(RowsOf(df, col, keys[i]), metric)>>)]

\* One step of the sort: r goes after the rows that are not smaller, so equal
\* rows keep the order they came in.
RECURSIVE InsertDesc(_, _, _)
InsertDesc(sorted, r, col) ==
    IF sorted = <<>> THEN <<r>>
    ELSE IF CellVal(Head(sorted)[col]) >= CellVal(r[col])
         THEN <<Head(sorted)>> \o InsertDesc(Tail(sorted), r, col)
         ELSE <<r>> \o sorted

RECURSIVE InsertAsc(_, _, _)
InsertAsc(sorted, r, col) ==
    IF sorted = <<>> THEN <<r>>
    ELSE IF CellVal(Head(sorted)[col]) <= CellVal(r[col])
         THEN <<Head(sorted)>> \o InsertAsc(Tail(sorted), r, col)
         ELSE <<r>> \o sorted

RECURSIVE SortValuesAsc(_, _)
SortValuesAsc(df, col) ==
    IF df = <<>> THEN <<>>
    ELSE InsertAsc(SortValuesAsc(SubSeq(df, 1, Len(df) - 1), col), df[Len(df)], col)

\* df.sort_values(col, ascending=False); for the few rows of a grouped frame
\* the sort keeps equal rows in their order (the keys' order).
RECURSIVE SortValuesDesc(_, _)
SortValuesDesc(df, col) ==
    IF df = <<>> THEN <<>>
    ELSE InsertDesc(SortValuesDesc(SubSeq(df, 1, Len(df) - 1), col), df[Len(df)], col)

\* df.nlargest(n, col), keep='first'
NLargest(df, n, col) == HeadN(SortValuesDesc(df, col), n)

\* Steps 3 and 4: groupby, TOTAL VALUE, sort_values(ascending=False).head(10)
TopByValue(df, col) == HeadN(SortValuesDesc(GroupByValue(df, col), "TOTAL_VALUE"), TopK)

\* Steps 7, 11 and 12: groupby(col)[metric].sum().nlargest(5)
TopBySum(df, col, metric) == NLargest(GroupBySum(df, col, metric), DrillK, metric)

\* --------------------------------------------------------------- time series

MonthOfRow(r) == MonthOf(DateOnly(r.ARRIVAL_DATE))

MonthsOf(df) == {MonthOfRow(df[i]) : i \in DOMAIN df}

FirstMonth(df) == CHOOSE m \in MonthsOf(df) : \A n \in MonthsOf(df) : m <= n

LastMonth(df) == CHOOSE m \in MonthsOf(df) : \A n \in MonthsOf(df) : m >= n

RowsOfMonth(df, m) == SelectSeq(df, LAMBDA r : MonthOfRow(r) = m)

\* The populated months only, in order.
PopulatedMonths(df) == SelectSeq([i \in 1..12 |-> i], LAMBDA m : m \in MonthsOf(df))

\* Bins for the populated months only.
GrouperBinsPopulated(df) == PopulatedMonths(df)

\* Bins for the whole calendar year, whatever the records.
GrouperBinsCalendar(df) == [i \in 1..12 |-> i]

\* The bins of pd.Grouper(key='ARRIVAL DATE', freq='ME') when it is the only
\* key: every month from the first populated one to the last.
GrouperBins(df) ==
    IF df = <<>> THEN <<>>
    ELSE [i \in 1..(LastMonth(df) - FirstMonth(df) + 1) |-> FirstMonth(df) + i - 1]

\* df.groupby(pd.Grouper(key='ARRIVAL DATE', freq='ME'))['TOTAL VALUE'].sum().reset_index()
TimeSeries(df) ==
    LET bins == GrouperBins(df)
    IN  [i \in DOMAIN bins |->
            [ ARRIVAL_DATE |-> MonthEnd(bins[i]),
              TOTAL_VALUE |-> <<SumCol(RowsOfMonth(df, bins[i]), "TOTAL_VALUE")>> ]]

\* ------------------------------------------------------------- growth trend

NaN == [kind |-> "nan", n |-> 0, d |-> 1]

Inf == [kind |-> "inf", n |-> 0, d |-> 1]

Fin(n, d) == [kind |-> "fin", n |-> n, d |-> d]

\* ((TOTAL VALUE - PREV TOTAL VALUE) / PREV TOTAL VALUE) * 100 in floats
GrowthRate(cur, prev) ==
    IF cur = <<>> \/ prev = <<>> THEN NaN
    ELSE IF prev[1] = 0 THEN (IF cur[1] = 0 THEN NaN ELSE Inf)
    ELSE Fin((cur[1] - prev[1]) * 100, prev[1])

\* a >= b on floats that are not NaN
FloatGE(a, b) ==
    IF a.kind = "inf" THEN TRUE
    ELSE IF b.kind = "inf" THEN FALSE
    ELSE a.n * b.d >= b.n * a.d

\* The rows of one month of groupby([Grouper, 'PRODUCT DETAILS']).sum(): with
\* a second key only the (month, product) pairs that have a record appear.
TrendCellsOfMonth(df, m) ==
    LET rows == RowsOfMonth(df, m)
        keys == GroupKeys(rows, "PRODUCT_DETAILS")
    IN  [i \in DOMAIN keys |->
            [ ARRIVAL_DATE |-> MonthEnd(m), PRODUCT_DETAILS |-> keys[i],
              TOTAL_VALUE |-> <<SumCol(RowsOf(rows, "PRODUCT_DETAILS", keys[i]), "TOTAL_VALUE")>> ]]

RECURSIVE TrendCellsFrom(_, _)
TrendCellsFrom(df, months) ==
    IF months = <<>> THEN <<>>
    ELSE TrendCellsOfMonth(df, Head(months)) \o TrendCellsFrom(df, Tail(months))

TrendCells(df) == TrendCellsFrom(df, PopulatedMonths(df))

\* groupby('PRODUCT DETAILS')['TOTAL VALUE'].shift(1), at row i: the value of
\* the nearest earlier row of the same product, missing when there is none.
Shift(cells, i) ==
    LET before == {j \in 1..(i - 1) : cells[j].PRODUCT_DETAILS = cells[i].PRODUCT_DETAILS}
    IN  IF before = {} THEN <<>>
        ELSE cells[CHOOSE j \in before : \A k \in before : k <= j].TOTAL_VALUE

\* dropna() on a trend row
HasNa(r) == r.TOTAL_VALUE = <<>> \/ r.PREV_TOTAL_VALUE = <<>> \/ r.GROWTH_RATE.kind = "nan"

\* Step 10, lines 151-154
Trend(df) ==
    LET cells == TrendCells(df)
        full == [i \in DOMAIN cells |->
                   [ ARRIVAL_DATE |-> cells[i].ARRIVAL_DATE,
                     PRODUCT_DETAILS |-> cells[i].PRODUCT_DETAILS,
                     TOTAL_VALUE |-> cells[i].TOTAL_VALUE,
                     PREV_TOTAL_VALUE |-> Shift(cells, i),
                     GROWTH_RATE |-> GrowthRate(cells[i].TOTAL_VALUE, Shift(cells, i)) ]]
    IN  SelectSeq(full, LAMBDA r : ~HasNa(r))

\* Series.mean() of the growth rates of one product: infinite as soon as
\* one of them is, else the sum of the n[i]/d[i] over their number.
MeanGrowth(rows) ==
    LET dens == [i \in DOMAIN rows |-> rows[i].GROWTH_RATE.d]
        all == ProdSeq(dens)
    IN  IF \E i \in DOMAIN rows : rows[i].GROWTH_RATE.kind = "inf" THEN Inf
        ELSE Fin(SumSeq([i \in DOMAIN rows |-> rows[i].GROWTH_RATE.n * (all \div dens[i])]),
                 all * Len(rows))

RECURSIVE InsertFloatDesc(_, _)
InsertFloatDesc(sorted, r) ==
    IF sorted = <<>> THEN <<r>>
    ELSE IF FloatGE(Head(sorted).GROWTH_RATE, r.GROWTH_RATE)
         THEN <<Head(sorted)>> \o InsertFloatDesc(Tail(sorted), r)
         ELSE <<r>> \o sorted

RECURSIVE SortGrowthDesc(_)
SortGrowthDesc(df) ==
    IF df = <<>> THEN <<>>
    ELSE InsertFloatDesc(SortGrowthDesc(SubSeq(df, 1, Len(df) - 1)), df[Len(df)])

\* trend_df.groupby('PRODUCT DETAILS')['GROWTH RATE'].mean().nlargest(5).reset_index()
TopGrowth(trend) ==
    LET keys == GroupKeys(trend, "PRODUCT_DETAILS")
        means == [i \in DOMAIN keys |->
                    [ PRODUCT_DETAILS |-> keys[i],
                      GROWTH_RATE |-> MeanGrowth(RowsOf(trend, "PRODUCT_DETAILS", keys[i])) ]]
    IN  HeadN(SortGrowthDesc(means), DrillK)

\* -------------------------------------------------------------------- state

VARIABLES
    files,                      \* company -> the rows of data/<company>.csv on disk
    cache,                      \* the st.cache_data store: company -> cached frame
    reads,                      \* company -> number of times its file was read
    first_load,                 \* company -> the frame its first load returned
    stale_load,                 \* the last load returned other rows than the file then held
    interactions,               \* events so far: user interactions and file edits
    selected_company,
    min_date, max_date, start_date, end_date,
    importers, selected_importers,
    importer_countries, selected_importer_country,
    exporter_countries, selected_exporter_country,
    selected_unit,
    product_options, selected_product,
    importer_options, selected_importer,
    shipping_df,                \* the loaded frame, as it is when the run ends
    date_filtered_df,           \* filtered_df as line 50 leaves it
    filtered_df,                \* filtered_df as it is when the run ends
    top_importers, top_products, time_series_df, geo_df,
    unit_df, top_products_by_unit,
    total_value, num_shipments, num_importers,
    trend_df, top_growth_products,
    product_df, top_importers_product,
    importer_df, top_products_importer

widgets ==
    << selected_company, min_date, max_date, start_date, end_date, importers,
       selected_importers, importer_countries, selected_importer_country,
       exporter_countries, selected_exporter_country, selected_unit,
       product_options, selected_product, importer_options, selected_importer >>

outputs ==
    << shipping_df, date_filtered_df, filtered_df, top_importers, top_products,
       time_series_df, geo_df, unit_df, top_products_by_unit, total_value,
       num_shipments, num_importers, trend_df, top_growth_products, product_df,
       top_importers_product, importer_df, top_products_importer >>

vars == << files, cache, reads, first_load, stale_load, interactions, widgets, outputs >>

\* ------------------------------------------------------------------ widgets

\* What Streamlit holds for the widgets of the page: the value of each and
\* the options (or bounds) it was last drawn with.
Session ==
    [ min_date |-> min_date, max_date |-> max_date,
      start_date |-> start_date, end_date |-> end_date,
      importers |-> importers, selected_importers |-> selected_importers,
      importer_countries |-> importer_countries,
      selected_importer_country |-> selected_importer_country,
      exporter_countries |-> exporter_countries,
      selected_exporter_country |-> selected_exporter_country,
      selected_unit |-> selected_unit,
      product_options |-> product_options, selected_product |-> selected_product,
      importer_options |-> importer_options, selected_importer |-> selected_importer ]

\* st.selectbox(label, options): the first option, None without options.
FirstOption(options) == IF options = <<>> THEN None ELSE options[1]

\* A widget drawn with the arguments of the run before keeps the user's
\* value; drawn with other arguments it is a new widget and has its default.
Widget(held, drawn_with, draw_with, default) ==
    IF drawn_with = draw_with THEN held ELSE default

\* The values tried for a date input: the dates that have a record.
DateChoices(df) == {DateOnly(df[i].ARRIVAL_DATE) : i \in DOMAIN df}

\* The values tried for the importer multi-select.
ImporterChoices(options) ==
    {{}} \cup {Range(HeadN(options, k)) : k \in 1..Len(options)}
         \cup {{options[i]} : i \in 1..Min2(MaxPick, Len(options))}

\* The values tried for a select box of products or importers.
SelectChoices(options) ==
    IF options = <<>> THEN {None} ELSE {options[i] : i \in 1..Min2(MaxPick, Len(options))}

UnitChoices == {quantity_units[i] : i \in 1..Min2(MaxUnits, Len(quantity_units))}

\* ------------------------------------------------------------- the script

\* Series.replace('Pieces', 'PCS') on one value
ReplaceUnit(u) == IF u = "Pieces" THEN "PCS" ELSE u

\* The object `name` is bound to once the script has bound it to h.
Handle(name, h) == [store |-> h.store, ref |-> name.ref]

\* Lines 66-71: the three conditional filters.
Filters(h1, sel, ic, ec) ==
    CountryFilter(CountryFilter(ImporterFilter(h1, sel), "IMPORTER_COUNTRY", ic),
                  "COUNTRY_OF_ORIGIN", ec)

\* Line 96: filtered_df['TOTAL VALUE'] = cif.fillna(0) + fob.fillna(0)
AddTotalValue(h) ==
    SetColumn(h, "TOTAL_VALUE", [i \in DOMAIN Frame(h) |-> TotalValue(Frame(h)[i])])

\* Line 120: filtered_df['QUANTITY UNIT'] = filtered_df['QUANTITY UNIT'].replace('Pieces', 'PCS')
NormalizeUnits(h) ==
    SetColumn(h, "QUANTITY_UNIT", [i \in DOMAIN Frame(h) |-> ReplaceUnit(Frame(h)[i].QUANTITY_UNIT)])

\* df[df[col] == value] on row values
RowsEq(df, col, value) == MaskRows(df, [i \in DOMAIN df |-> df[i][col] = value])

\* ------------------------------------------------------------------ actions

\* The script runs to its end for `company` with the session w: the cache,
\* the widgets and everything the page shows are as the run leaves them.
\* Each line binds a name of the script to the value the statement gives it.
Run(company, w) ==
    \E load \in {GetShippingData(cache, files, company)} :                     \* line 40
    \E shipping \in {[store |-> <<load.df>>, ref |-> 1]} :
    \E lo \in {MinDate(load.df)}, hi \in {MaxDate(load.df)} :                  \* lines 43-44
    \E start \in {Widget(w.start_date, <<w.min_date, w.max_date>>, <<lo, hi>>, lo)} :
    \E end \in {Widget(w.end_date, <<w.min_date, w.max_date>>, <<lo, hi>>, hi)} :
    \E h1 \in {DateFilter(shipping, start, end)} :                             \* line 50
    \E imps \in {Unique(Frame(h1), "IMPORTER_NAME")} :                         \* line 53
    \E sel \in {Widget(w.selected_importers, w.importers, imps, Range(HeadN(imps, 5)))} :
    \E ics \in {<<All>> \o Unique(Frame(h1), "IMPORTER_COUNTRY")} :            \* line 60
    \E ic \in {Widget(w.selected_importer_country, w.importer_countries, ics, All)} :
    \E ecs \in {<<All>> \o Unique(Frame(h1), "COUNTRY_OF_ORIGIN")} :           \* line 63
    \E ec \in {Widget(w.selected_exporter_country, w.exporter_countries, ecs, All)} :
    \E h4 \in {Filters(h1, sel, ic, ec)} :                                     \* lines 66-71
    \E h5 \in {AddTotalValue(h4)} :                                            \* line 96
    \E h6 \in {NormalizeUnits(h5)} :                                           \* line 120
    \E shown \in {Frame(h6)} :
    \E prods \in {Unique(shown, "PRODUCT_DETAILS")} :                          \* line 164
    \E prod \in {Widget(w.selected_product, w.product_options, prods, FirstOption(prods))} :
    \E names \in {Unique(shown, "IMPORTER_NAME")} :                            \* line 180
    \E imp \in {Widget(w.selected_importer, w.importer_options, names, FirstOption(names))} :
    \E units \in {RowsEq(shown, "QUANTITY_UNIT", w.selected_unit)} :           \* line 124
    \E of_product \in {RowsEq(shown, "PRODUCT_DETAILS", prod)} :               \* line 166
    \E of_importer \in {RowsEq(shown, "IMPORTER_NAME", imp)} :                 \* line 182
    \E trend \in {Trend(shown)} :                                              \* lines 151-154
        /\ cache' = load.cache
        /\ reads' = [reads EXCEPT ![company] = IF load.read THEN @ + 1 ELSE @]
        /\ first_load' = IF company \in DOMAIN first_load THEN first_load
                         ELSE [c \in (DOMAIN first_load) \cup {company} |->
                                 IF c = company THEN load.df ELSE first_load[c]]
        /\ stale_load' = (load.df # ReadCsv(files[company]))
        /\ selected_company' = company
        /\ min_date' = lo
        /\ max_date' = hi
        /\ start_date' = start
        /\ end_date' = end
        /\ importers' = imps
        /\ selected_importers' = sel
        /\ importer_countries' = ics
        /\ selected_importer_country' = ic
        /\ exporter_countries' = ecs
        /\ selected_exporter_country' = ec
        /\ selected_unit' = w.selected_unit
        /\ product_options' = prods
        /\ selected_product' = prod
        /\ importer_options' = names
        /\ selected_importer' = imp
        /\ shipping_df' = Frame(Handle(shipping, h6))
        /\ date_filtered_df' = Frame(h1)
        /\ filtered_df' = shown
        /\ top_importers' = TopByValue(Frame(h4), "IMPORTER_NAME")                 \* lines 74-76
        /\ top_products' = TopByValue(Frame(h4), "PRODUCT_DETAILS")                \* lines 85-87
        /\ time_series_df' = TimeSeries(Frame(h5))                                 \* line 97
        /\ geo_df' = GroupBySum(Frame(h5), "IMPORTER_COUNTRY", "TOTAL_VALUE")      \* line 105
        /\ unit_df' = units
        /\ top_products_by_unit' =                                                 \* lines 125-127
              IF units # <<>> THEN TopBySum(units, "PRODUCT_DETAILS", "QUANTITY") ELSE <<>>
        /\ total_value' = SumCol(shown, "TOTAL_VALUE")                             \* line 137
        /\ num_shipments' = Len(shown)                                             \* line 138
        /\ num_importers' = Len(Unique(shown, "IMPORTER_NAME"))                    \* line 139
        /\ trend_df' = trend
        /\ top_growth_products' = TopGrowth(trend)                                 \* line 156
        /\ product_df' = of_product
        /\ top_importers_product' = TopBySum(of_product, "IMPORTER_NAME", "TOTAL_VALUE")   \* line 173
        /\ importer_df' = of_importer
        /\ top_products_importer' = TopBySum(of_importer, "PRODUCT_DETAILS", "TOTAL_VALUE") \* line 189
        /\ UNCHANGED files

\* The script reruns with the widget values the session holds.
Rerun ==
    /\ selected_company # None
    /\ Run(selected_company, Session)
    /\ UNCHANGED interactions

\* The page is opened: the first run, every widget at its default.
OpenPage ==
    /\ selected_company = None
    /\ Run(companies[1], Session)
    /\ UNCHANGED interactions

Interaction ==
    /\ selected_company # None
    /\ interactions < MaxInteractions
    /\ interactions' = interactions + 1

SelectCompany(c) ==
    /\ Interaction
    /\ c # selected_company
    /\ Run(c, Session)

SetStartDate(d) ==
    /\ Interaction
    /\ d # start_date
    /\ Run(selected_company, [Session EXCEPT !.start_date = d])

SetEndDate(d) ==
    /\ Interaction
    /\ d # end_date
    /\ Run(selected_company, [Session EXCEPT !.end_date = d])

SetImporters(sel) ==
    /\ Interaction
    /\ sel # selected_importers
    /\ Run(selected_company, [Session EXCEPT !.selected_importers = sel])

SetImporterCountry(x) ==
    /\ Interaction
    /\ x # selected_importer_country
    /\ Run(selected_company, [Session EXCEPT !.selected_importer_country = x])

SetExporterCountry(x) ==
    /\ Interaction
    /\ x # selected_exporter_country
    /\ Run(selected_company, [Session EXCEPT !.selected_exporter_country = x])

SetUnit(u) ==
    /\ Interaction
    /\ u # selected_unit
    /\ Run(selected_company, [Session EXCEPT !.selected_unit = u])

SetProduct(x) ==
    /\ Interaction
    /\ x # selected_product
    /\ Run(selected_company, [Session EXCEPT !.selected_product = x])

SetImporter(x) ==
    /\ Interaction
    /\ x # selected_importer
    /\ Run(selected_company, [Session EXCEPT !.selected_importer = x])

\* The file as edited on disk while the application runs: its last record removed.
Edited(csv) == SubSeq(csv, 1, Len(csv) - 1)

\* Somebody replaces data/<c>.csv; the application is not told.
FileChanged(c) ==
    /\ interactions < MaxInteractions
    /\ interactions' = interactions + 1
    /\ Len(CsvFile(c)) > 1
    /\ files' = [files EXCEPT ![c] = IF @ = CsvFile(c) THEN Edited(CsvFile(c)) ELSE CsvFile(c)]
    /\ UNCHANGED << cache, reads, first_load, stale_load, widgets, outputs >>

\* ------------------------------------------------------------ specifications

NoOutput ==
    /\ shipping_df = <<>> /\ date_filtered_df = <<>> /\ filtered_df = <<>>
    /\ top_importers = <<>> /\ top_products = <<>> /\ time_series_df = <<>>
    /\ geo_df = <<>> /\ unit_df = <<>> /\ top_products_by_unit = <<>>
    /\ total_value = 0 /\ num_shipments = 0 /\ num_importers = 0
    /\ trend_df = <<>> /\ top_growth_products = <<>>
    /\ product_df = <<>> /\ top_importers_product = <<>>
    /\ importer_df = <<>> /\ top_products_importer = <<>>

FreshProcess ==
    /\ cache = <<>>
    /\ reads = [c \in Range(companies) |-> 0]
    /\ first_load = <<>>
    /\ stale_load = FALSE
    /\ interactions = 0

\* A new process and a browser that has not opened the page yet.
InitSession ==
    /\ files = [c \in Range(companies) |-> CsvFile(c)]
    /\ FreshProcess
    /\ selected_company = None
    /\ min_date = 0 /\ max_date = 0 /\ start_date = 0 /\ end_date = 0
    /\ importers = <<>> /\ selected_importers = {}
    /\ importer_countries = <<>> /\ selected_importer_country = All
    /\ exporter_countries = <<>> /\ selected_exporter_country = All
    /\ selected_unit = quantity_units[1]
    /\ product_options = <<>> /\ selected_product = None
    /\ importer_options = <<>> /\ selected_importer = None
    /\ NoOutput

NextSession ==
    \/ OpenPage
    \/ \E c \in Range(companies) : SelectCompany(c)
    \/ \E d \in DateChoices(shipping_df) : SetStartDate(d)
    \/ \E d \in DateChoices(shipping_df) : SetEndDate(d)
    \/ \E sel \in ImporterChoices(importers) : SetImporters(sel)
    \/ \E x \in Range(importer_countries) : SetImporterCountry(x)
    \/ \E x \in Range(exporter_countries) : SetExporterCountry(x)
    \/ \E u \in UnitChoices : SetUnit(u)
    \/ \E x \in SelectChoices(product_options) : SetProduct(x)
    \/ \E x \in SelectChoices(importer_options) : SetImporter(x)
    \/ \E c \in Range(companies) : FileChanged(c)

\* A session over the dashboard: the page is opened, then the user changes
\* one widget at a time and the files may be edited meanwhile.
SpecSession == InitSession /\ [][NextSession]_vars

\* Every company file, as shipped or edited, and every widget state the page
\* can be in for it, before the script runs.
\* Every company file, as shipped or edited, and every widget state the page
\* can be in for it, before the script runs: each widget holds one of the
\* values it offers.
Init ==
    /\ FreshProcess
    /\ NoOutput
    /\ \E c \in Range(companies), edited \in BOOLEAN :
        /\ edited => Len(CsvFile(c)) > 1
        /\ files = [k \in Range(companies) |->
                      IF k = c /\ edited THEN Edited(CsvFile(k)) ELSE CsvFile(k)]
        /\ selected_company = c
        /\ \E df \in {ReadCsv(IF edited THEN Edited(CsvFile(c)) ELSE CsvFile(c))} :
           \E s \in DateChoices(df), e \in DateChoices(df) :
           \E h1 \in {DateFilter([store |-> <<df>>, ref |-> 1], s, e)} :
           \E imps \in {Unique(Frame(h1), "IMPORTER_NAME")} :
           \E ics \in {<<All>> \o Unique(Frame(h1), "IMPORTER_COUNTRY")} :
           \E ecs \in {<<All>> \o Unique(Frame(h1), "COUNTRY_OF_ORIGIN")} :
           \E sel \in ImporterChoices(imps), ic \in Range(ics), ec \in Range(ecs) :
           \E shown \in {Frame(Filters(h1, sel, ic, ec))} :
           \E prods \in {Unique(shown, "PRODUCT_DETAILS")} :
           \E names \in {Unique(shown, "IMPORTER_NAME")} :
              /\ min_date = MinDate(df)
              /\ max_date = MaxDate(df)
              /\ start_date = s
              /\ end_date = e
              /\ importers = imps
              /\ selected_importers = sel
              /\ importer_countries = ics
              /\ selected_importer_country = ic
              /\ exporter_countries = ecs
              /\ selected_exporter_country = ec
              /\ selected_unit \in UnitChoices
              /\ product_options = prods
              /\ selected_product \in SelectChoices(prods)
              /\ importer_options = names
              /\ selected_importer \in SelectChoices(names)

Next == Rerun

\* One run of the script from any widget state.
Spec == Init /\ [][Next]_vars

\* ------------------------------------------------------------------- claims

\* The page on screen is the result of a run for the selected company.
Rendered == selected_company # None /\ selected_company \in DOMAIN cache

\* coalesce(x, 0)
Coalesce(cell) == IF cell = <<>> THEN 0 ELSE cell[1]

\* coalesce(cif, 0) + coalesce(fob, 0) of a record
Value(r) == Coalesce(r.IMPORT_VALUE_CIF) + Coalesce(r.IMPORT_VALUE_FOB)

\* The columns of a record that no step of the script rewrites.
Src(r) ==
    << r.ARRIVAL_DATE, r.IMPORTER_NAME, r.IMPORTER_COUNTRY, r.COUNTRY_OF_ORIGIN,
       r.PRODUCT_DETAILS, r.IMPORT_VALUE_CIF, r.IMPORT_VALUE_FOB, r.QUANTITY >>

Keys(df, col) == {df[i][col] : i \in DOMAIN df}

\* Sum of the values, or of the quantities, of the records of df whose col is key.
ValueOfGroup(df, col, key) ==
    SumSeq([i \in DOMAIN df |-> IF df[i][col] = key THEN Value(df[i]) ELSE 0])

QuantityOfGroup(df, col, key) ==
    SumSeq([i \in DOMAIN df |-> IF df[i][col] = key THEN Coalesce(df[i].QUANTITY) ELSE 0])

\* The calendar month of a record, and the sum of the values of the records
\* of df that fall in month m (and are of product p).
Month(r) == MonthOf(r.ARRIVAL_DATE \div 24)

ValueOfMonth(df, m) == SumSeq([i \in DOMAIN df |-> IF Month(df[i]) = m THEN Value(df[i]) ELSE 0])

ValueOfCell(df, m, p) ==
    SumSeq([i \in DOMAIN df |->
              IF Month(df[i]) = m /\ df[i].PRODUCT_DETAILS = p THEN Value(df[i]) ELSE 0])

Months(df) == {Month(df[i]) : i \in DOMAIN df}

PassesCountries(r) ==
    /\ selected_importer_country = All \/ r.IMPORTER_COUNTRY = selected_importer_country
    /\ selected_exporter_country = All \/ r.COUNTRY_OF_ORIGIN = selected_exporter_country

\* C1 as stated: whatever the date range and the country selections, an empty
\* importer selection leaves zero rows in the filtered relation.
C1_EmptySelectionYieldsNoRows ==
    (Rendered /\ selected_importers = {}) => filtered_df = <<>>

\* C1 as amended: with an empty importer selection the importer filter is not
\* applied: the filtered relation holds, in order, exactly the records of the
\* date range that pass the country selections.
C1_EmptySelectionSkipsFilter ==
    (Rendered /\ selected_importers = {}) =>
        [i \in DOMAIN filtered_df |-> Src(filtered_df[i])]
            = [i \in DOMAIN SelectSeq(date_filtered_df, PassesCountries) |->
                 Src(SelectSeq(date_filtered_df, PassesCountries)[i])]

\* C1: an empty importer selection on a date range with several importers,
\* narrowed by a country selection that some records pass.
C1_Witness ==
    /\ Rendered
    /\ selected_importers = {}
    /\ Len(importers) > 1
    /\ filtered_df # <<>>
    /\ Len(filtered_df) < Len(date_filtered_df)

\* C2 as stated: the time series has exactly one bucket per calendar month
\* that holds a record, in chronological order, with the sum of that month's
\* values; a month without a record is no bucket.
C2_OnlyPopulatedMonths ==
    Rendered =>
        /\ Len(time_series_df) = Cardinality(Months(filtered_df))
        /\ \A i \in DOMAIN time_series_df :
             /\ MonthOf(time_series_df[i].ARRIVAL_DATE) \in Months(filtered_df)
             /\ time_series_df[i].TOTAL_VALUE
                  = <<ValueOfMonth(filtered_df, MonthOf(time_series_df[i].ARRIVAL_DATE))>>
        /\ \A i, j \in DOMAIN time_series_df :
             i < j => time_series_df[i].ARRIVAL_DATE < time_series_df[j].ARRIVAL_DATE

\* C2 as amended: the time series has exactly one bucket per calendar month
\* from the first month that holds a record to the last one, in chronological
\* order, labelled by the month's last day, with the sum of that month's
\* values: a month without a record between two populated months is a bucket
\* of sum 0.
C2_EveryMonthOfTheSpan ==
    Rendered =>
        /\ \A m \in 1..12 :
             Cardinality({i \in DOMAIN time_series_df : time_series_df[i].ARRIVAL_DATE = MonthEnd(m)})
               = IF \E a, b \in Months(filtered_df) : a <= m /\ m <= b THEN 1 ELSE 0
        /\ \A i \in DOMAIN time_series_df :
             /\ time_series_df[i].ARRIVAL_DATE \in {MonthEnd(m) : m \in 1..12}
             /\ time_series_df[i].TOTAL_VALUE
                  = <<ValueOfMonth(filtered_df, MonthOf(time_series_df[i].ARRIVAL_DATE))>>
        /\ \A i, j \in DOMAIN time_series_df :
             i < j => time_series_df[i].ARRIVAL_DATE < time_series_df[j].ARRIVAL_DATE

\* C2: a month without a record between two populated months, and a month
\* that holds two records.
C2_Witness ==
    /\ Rendered
    /\ \E a, b \in Months(filtered_df), m \in 1..12 :
         /\ a < m /\ m < b /\ m \notin Months(filtered_df)
         /\ \E i \in DOMAIN time_series_df :
              /\ time_series_df[i].ARRIVAL_DATE = MonthEnd(m)
              /\ time_series_df[i].TOTAL_VALUE = <<0>>
    /\ \E i, j \in DOMAIN filtered_df :
         i # j /\ Month(filtered_df[i]) = Month(filtered_df[j])

\* C3: the date-filtered relation is exactly the records of the loaded
\* relation whose arrival date, time of day dropped, lies in [start, end],
\* both ends included, in their order; so a narrower range never holds more
\* rows, and a range with start > end holds none.
C3_DateRangeInclusive ==
    Rendered =>
        LET InRange(s, e) ==
                {i \in DOMAIN shipping_df :
                    s <= shipping_df[i].ARRIVAL_DATE \div 24 /\ shipping_df[i].ARRIVAL_DATE \div 24 <= e}
            kept == InRange(start_date, end_date)
        IN  /\ Len(date_filtered_df) = Cardinality(kept)
            /\ \A i \in kept :
                 date_filtered_df[Cardinality({j \in kept : j <= i})] = shipping_df[i]
            /\ \A s, e \in {shipping_df[i].ARRIVAL_DATE \div 24 : i \in DOMAIN shipping_df} :
                 (start_date <= s /\ e <= end_date) =>
                     Cardinality(InRange(s, e)) <= Len(date_filtered_df)
            /\ start_date > end_date => date_filtered_df = <<>>

\* C3: a range that leaves records out and keeps a record of its last day
\* that arrived after midnight, and one of its first day.
C3_Witness ==
    /\ Rendered
    /\ start_date < end_date
    /\ Len(date_filtered_df) < Len(shipping_df)
    /\ \E i \in DOMAIN date_filtered_df :
         /\ date_filtered_df[i].ARRIVAL_DATE \div 24 = end_date
         /\ date_filtered_df[i].ARRIVAL_DATE % 24 # 0
    /\ \E i \in DOMAIN date_filtered_df : date_filtered_df[i].ARRIVAL_DATE \div 24 = start_date

\* The months in which product p has a record in df.
MonthsOfProduct(df, p) == {Month(df[i]) : i \in {j \in DOMAIN df : df[j].PRODUCT_DETAILS = p}}

\* The populated month of product p just before month m.
PreviousMonth(df, p, m) ==
    CHOOSE a \in MonthsOfProduct(df, p) :
        a < m /\ \A b \in MonthsOfProduct(df, p) : b < m => b <= a

TrendRows(p, m) ==
    {i \in DOMAIN trend_df :
        trend_df[i].PRODUCT_DETAILS = p /\ trend_df[i].ARRIVAL_DATE = MonthEnd(m)}

\* C4 as stated: every month bucket of a product other than its first has
\* one trend row, whose growth rate is (current - previous) / previous * 100
\* with previous the total of the product's preceding populated month; the
\* first bucket of a product has no trend row.
C4_TrendRowPerLaterBucket ==
    Rendered =>
        \A p \in Keys(filtered_df, "PRODUCT_DETAILS") :
            \A m \in MonthsOfProduct(filtered_df, p) :
                IF \A a \in MonthsOfProduct(filtered_df, p) : m <= a
                THEN TrendRows(p, m) = {}
                ELSE /\ Cardinality(TrendRows(p, m)) = 1
                     /\ \A i \in TrendRows(p, m) :
                          LET cur == ValueOfCell(filtered_df, m, p)
                              prev == ValueOfCell(filtered_df, PreviousMonth(filtered_df, p, m), p)
                          IN  /\ trend_df[i].GROWTH_RATE.kind = "fin"
                              /\ trend_df[i].GROWTH_RATE.n * prev
                                   = (cur - prev) * 100 * trend_df[i].GROWTH_RATE.d

\* C5 as stated: no undefined or infinite growth rate is in the trend rows
\* that feed the per-product mean, nor in the top-5 growth ranking.
C5_NoUndefinedGrowthRanked ==
    Rendered =>
        /\ \A i \in DOMAIN trend_df : trend_df[i].GROWTH_RATE.kind = "fin"
        /\ \A i \in DOMAIN top_growth_products : top_growth_products[i].GROWTH_RATE.kind = "fin"

\* Sum of the values of all the records of df.
ValueOf(df) == SumSeq([i \in DOMAIN df |-> Value(df[i])])

\* C6: the file of a company is read at most once, and every load of a
\* company returns the rows, and so the total value, that its first load
\* returned.
C6_ReadOncePerEntity ==
    /\ \A c \in Range(companies) : reads[c] <= 1
    /\ \A c \in DOMAIN first_load : reads[c] = 1
    /\ Rendered =>
         /\ shipping_df = first_load[selected_company]
         /\ Len(shipping_df) = Len(first_load[selected_company])
         /\ ValueOf(shipping_df) = ValueOf(first_load[selected_company])

\* C6: a load served from the cache while the file on disk held other rows, after
\* another company had been loaded.
C6_Witness ==
    /\ Rendered
    /\ stale_load
    /\ reads[selected_company] = 1
    /\ \E c \in DOMAIN cache : c # selected_company
    /\ ValueOf(shipping_df) # ValueOf(ReadCsv(files[selected_company]))

\* C7: a run changes only the derived relation: when it ends, the relation it
\* loaded still has the rows, columns and values that the cache holds for
\* the company and that the first load returned, while the derived relation
\* has the TOTAL VALUE column and the normalized units.
C7_SourceNotMutated ==
    /\ \A c \in DOMAIN cache : cache[c] = first_load[c]
    /\ Rendered =>
         /\ shipping_df = cache[selected_company]
         /\ \A i \in DOMAIN shipping_df : "TOTAL_VALUE" \notin DOMAIN shipping_df[i]
         /\ \A i \in DOMAIN filtered_df :
              /\ "TOTAL_VALUE" \in DOMAIN filtered_df[i]
              /\ filtered_df[i].QUANTITY_UNIT # "Pieces"

\* C7: a run whose filters remove no row, on a cached relation with a legacy unit.
C7_Witness ==
    /\ Rendered
    /\ ~stale_load
    /\ interactions > 0
    /\ Len(filtered_df) = Len(shipping_df)
    /\ \E i \in DOMAIN shipping_df :
         /\ shipping_df[i].QUANTITY_UNIT = "Pieces"
         /\ filtered_df[i].QUANTITY_UNIT = "PCS"
         /\ Src(filtered_df[i]) = Src(shipping_df[i])

\* A ranking `out` of the groups of df by col: it has Min(k, number of
\* groups) rows, one group each, carrying the group's summed metric
\* (totals[key]) in non-increasing order, and no group left out has a larger
\* sum than a group kept.
IsTopK(out, col, metric, k, totals) ==
    /\ Len(out) = Min2(k, Cardinality(DOMAIN totals))
    /\ \A i \in DOMAIN out : out[i][col] \in DOMAIN totals /\ out[i][metric] = <<totals[out[i][col]]>>
    /\ \A i, j \in DOMAIN out : i < j => (out[i][col] # out[j][col] /\ out[i][metric][1] >= out[j][metric][1])
    /\ \A key \in DOMAIN totals :
         (\A i \in DOMAIN out : out[i][col] # key) =>
             \A i \in DOMAIN out : totals[key] <= out[i][metric][1]

ValueTotals(df, col) == [key \in Keys(df, col) |-> ValueOfGroup(df, col, key)]

QuantityTotals(df, col) == [key \in Keys(df, col) |-> QuantityOfGroup(df, col, key)]

\* C8: each of the five rankings is the top K of its groups, K = 10 for the
\* importer and product rankings, K = 5 for the unit-scoped and drill-down ones.
C8_TopKRankings ==
    Rendered =>
        /\ IsTopK(top_importers, "IMPORTER_NAME", "TOTAL_VALUE", 10,
                  ValueTotals(filtered_df, "IMPORTER_NAME"))
        /\ IsTopK(top_products, "PRODUCT_DETAILS", "TOTAL_VALUE", 10,
                  ValueTotals(filtered_df, "PRODUCT_DETAILS"))
        /\ IsTopK(top_products_by_unit, "PRODUCT_DETAILS", "QUANTITY", 5,
                  QuantityTotals(SelectSeq(filtered_df, LAMBDA r : r.QUANTITY_UNIT = selected_unit),
                                 "PRODUCT_DETAILS"))
        /\ IsTopK(top_importers_product, "IMPORTER_NAME", "TOTAL_VALUE", 5,
                  ValueTotals(SelectSeq(filtered_df, LAMBDA r : r.PRODUCT_DETAILS = selected_product),
                              "IMPORTER_NAME"))
        /\ IsTopK(top_products_importer, "PRODUCT_DETAILS", "TOTAL_VALUE", 5,
                  ValueTotals(SelectSeq(filtered_df, LAMBDA r : r.IMPORTER_NAME = selected_importer),
                              "PRODUCT_DETAILS"))

\* C8: more groups than K in each ranking, with equal sums among them.
C8_Witness ==
    /\ Rendered
    /\ Len(top_importers) = 10 /\ num_importers > 10
    /\ Len(top_products) = 10 /\ Cardinality(Keys(filtered_df, "PRODUCT_DETAILS")) > 10
    /\ Len(top_products_by_unit) = 5 /\ Cardinality(Keys(unit_df, "PRODUCT_DETAILS")) > 5
    /\ Len(top_importers_product) = 5 /\ Cardinality(Keys(product_df, "IMPORTER_NAME")) > 5
    /\ Len(top_products_importer) = 5 /\ Cardinality(Keys(importer_df, "PRODUCT_DETAILS")) > 5
    /\ \E i, j \in DOMAIN top_importers :
         i # j /\ top_importers[i].TOTAL_VALUE = top_importers[j].TOTAL_VALUE

\* C9: when the filters leave no row the run still ends, every ranking, the
\* time series and the growth trend are empty and the three metrics are 0.
C9_EmptyInput ==
    (Rendered /\ filtered_df = <<>>) =>
        /\ top_importers = <<>> /\ top_products = <<>>
        /\ top_products_by_unit = <<>>
        /\ top_importers_product = <<>> /\ top_products_importer = <<>>
        /\ time_series_df = <<>>
        /\ trend_df = <<>> /\ top_growth_products = <<>>
        /\ total_value = 0 /\ num_shipments = 0 /\ num_importers = 0

\* C9: no row left by the country selections, though the date range holds some.
C9_Witness ==
    /\ Rendered
    /\ filtered_df = <<>>
    /\ date_filtered_df # <<>>
    /\ selected_product = None /\ selected_importer = None

\* C10: every record's TOTAL VALUE is coalesce(cif, 0) + coalesce(fob, 0);
\* the value ranked for a group in the top-10 tables is the sum of the TOTAL
\* VALUE of the group's records; and the buckets of the time series add up
\* to the total-value metric, which is the sum over the records.
C10_TotalValueConsistent ==
    Rendered =>
        /\ \A i \in DOMAIN filtered_df : filtered_df[i].TOTAL_VALUE = <<Value(filtered_df[i])>>
        /\ \A i \in DOMAIN top_importers :
             top_importers[i].TOTAL_VALUE[1]
               = SumSeq([j \in DOMAIN filtered_df |->
                           IF filtered_df[j].IMPORTER_NAME = top_importers[i].IMPORTER_NAME
                           THEN Coalesce(filtered_df[j].TOTAL_VALUE) ELSE 0])
        /\ \A i \in DOMAIN top_products :
             top_products[i].TOTAL_VALUE[1]
               = SumSeq([j \in DOMAIN filtered_df |->
                           IF filtered_df[j].PRODUCT_DETAILS = top_products[i].PRODUCT_DETAILS
                           THEN Coalesce(filtered_df[j].TOTAL_VALUE) ELSE 0])
        /\ total_value = SumSeq([j \in DOMAIN filtered_df |-> Coalesce(filtered_df[j].TOTAL_VALUE)])
        /\ total_value = SumSeq([i \in DOMAIN time_series_df |-> time_series_df[i].TOTAL_VALUE[1]])
        /\ Len(top_importers) = num_importers =>
             total_value = SumSeq([i \in DOMAIN top_importers |-> top_importers[i].TOTAL_VALUE[1]])

\* C10: records with one and with both monetary fields absent, in one group.
C10_Witness ==
    /\ Rendered
    /\ \E i, j \in DOMAIN filtered_df :
         /\ filtered_df[i].IMPORT_VALUE_CIF = <<>> /\ filtered_df[i].IMPORT_VALUE_FOB = <<>>
         /\ filtered_df[i].TOTAL_VALUE = <<0>>
         /\ filtered_df[j].IMPORT_VALUE_CIF # <<>> /\ filtered_df[j].IMPORT_VALUE_FOB = <<>>
         /\ filtered_df[i].IMPORTER_NAME = filtered_df[j].IMPORTER_NAME
    /\ top_importers # <<>>
    /\ total_value > 0

====
